---- MODULE Spec2Model ----
(***************************************************************************)
(* The incremental indexing pipeline of drew: DrewVectorStore.indexAll     *)
(* (the streaming controller), its diff against the stored records and the *)
(* id ledger, the dedicated upsert worker (upsert-worker.ts, the buffering *)
(* writer) and the `drew index` command that drives one run per process.   *)
(***************************************************************************)
EXTENDS Integers, Sequences, FiniteSets, TLC

\* ------------------------------------------------------------------ bounds
MaxIds == 3
MaxRuns == 2
MaxFaults == 1
MaxFailCall == 6

Ids == 1..MaxIds
Checksums == {"c0", "c1"}

\* -------------------------------------------------------- program constants
BatchFloor == 100
BatchCeiling == 128
BytesPerItem == 2097152
FreeMemFloor == 16
RetryFloor == 16
SubBatchSize == 50

Pending == -1

VARIABLES
    store,            \* the zvec collection on disk: id -> checksum held in fields.content
    ledger,           \* .index-ids.json: [ok, ids]; ok = FALSE when missing or unreadable
    pc,               \* where the `drew index` process is
    collection,       \* this.collection # null: the controller holds an open handle
    corpus,           \* the specMap of the run: id -> checksum
    diff,             \* IndexDiff of the run
    i,                \* offset of the next chunk in diff.toEmbed
    batchSize,
    sentItems,        \* items tracked for fallback recovery
    worker,           \* spawnUpsertWorker returned a Worker (not null)
    workerAlive,
    workerSucceeded,
    exitPromise,      \* Pending, or the code it resolved with
    delIdx,           \* stale ids already handled by the delete loop
    result,           \* the IndexResult returned
    wstate,           \* "none" | "starting" | "running" | "crashed" | "exited"
    whandle,          \* the worker holds an open handle
    inbox,            \* messages posted to the worker, not yet handled
    buffer,
    flushScheduled,
    shuttingDown,
    runNo,            \* history: runs started
    prevCorpus,       \* history: corpus of the previous run
    prevClean,        \* history: the previous run returned, with no failure, and no reindex since
    runFaults,        \* history: failures injected in this run
    nfaults,          \* history: failures injected so far
    applied,          \* history: ids a native upsert call of this run wrote
    fallbackItems,    \* history: what the controller's fallback upsert was called with
    store0,           \* history: the collection when the run began
    ledger0,          \* history: the ledger file when the run began
    ledgerWrites,     \* history: calls of saveIndexedIds in this run
    reindexed,        \* the --reindex option of this process
    sizing,           \* a call of determineBatchSize: its arguments and its result
    posted,           \* history: the items of the batch messages handed to worker.postMessage
    flushes,          \* history: the batches the worker passed to its native upsert call
    receivedBatches,  \* history: the batch messages the worker's handler received
    steps,            \* history: the storage and ledger calls of this run, in order
    acks,             \* the 'done' and 'error' messages the worker posted to its parent
    retry,            \* the embedding of one chunk: its texts, the provider, the outcome
    dispatch          \* a call of upsertViaWorkers: its sub-batches, its acknowledgment count

ctl == <<pc, collection, corpus, diff, i, batchSize, sentItems, worker, workerAlive,
         workerSucceeded, exitPromise, delIdx, result>>
wrk == <<wstate, whandle, inbox, buffer, flushScheduled, shuttingDown>>
hist == <<runNo, prevCorpus, prevClean, runFaults, nfaults, applied, fallbackItems, store0,
          ledger0, ledgerWrites, reindexed, posted, flushes, receivedBatches, steps, acks>>
vars == <<store, ledger, ctl, wrk, hist, sizing, retry, dispatch>>

\* ----------------------------------------------------------------- helpers
Min(a, b) == IF a < b THEN a ELSE b
Max(a, b) == IF a > b THEN a ELSE b

SortedSeq(S) ==
    [k \in 1..Cardinality(S) |-> CHOOSE x \in S : Cardinality({y \in S : y < x}) = k - 1]

SeqIds(s) == {s[k].id : k \in 1..Len(s)}

EmptyStore == [x \in {} |-> "c0"]
Corpora == UNION {[S -> Checksums] : S \in SUBSET Ids}

\* items[]: one IndexableItem per node/spec, in the specMap's order
Items(c) == LET ids == SortedSeq(DOMAIN c)
            IN [k \in 1..Len(ids) |-> [id |-> ids[k], cs |-> c[ids[k]]]]

\* collection.upsertSync of one document: insert or replace by id
Upsert(st, item) ==
    [x \in DOMAIN st \cup {item.id} |-> IF x = item.id THEN item.cs ELSE st[x]]

\* upsertSync of a list of documents, in order: the last document of an id stays
UpsertAll(st, batch) ==
    LET ids == SeqIds(batch)
        lastOf(x) == CHOOSE k \in 1..Len(batch) :
                        /\ batch[k].id = x
                        /\ \A j \in (k + 1)..Len(batch) : batch[j].id # x
    IN [x \in DOMAIN st \cup ids |-> IF x \in ids THEN batch[lastOf(x)].cs ELSE st[x]]

\* get(id): the stored record fetched by id, null when there is none
Get(st, id) == IF id \in DOMAIN st THEN st[id] ELSE "null"

\* collection.deleteSync
Delete(st, id) == [x \in DOMAIN st \ {id} |-> st[x]]

AbsentLedger == [ok |-> FALSE, ids |-> {}]

\* loadIndexedIds never finding the file
LoadIndexedIdsEmpty(led) == {}

\* loadIndexedIds: the saved ids, or the empty set when missing or unreadable
LoadIndexedIds(led) == IF led.ok THEN led.ids ELSE {}

\* saveIndexedIds leaving the file as it is
SaveIndexedIdsSkipped(led, ids, outcome) == led

\* saveIndexedIds adding the ids to the saved ones instead of replacing them
SaveIndexedIdsMerged(led, ids, outcome) ==
    CASE outcome = "ok" -> [ok |-> TRUE, ids |-> LoadIndexedIds(led) \cup ids]
      [] outcome = "kept" -> led
      [] OTHER -> AbsentLedger

\* saveIndexedIds: the write succeeds, or fails leaving the old file or a partial one
SaveIndexedIds(led, ids, outcome) ==
    CASE outcome = "ok" -> [ok |-> TRUE, ids |-> ids]
      [] outcome = "kept" -> led
      [] OTHER -> AbsentLedger
SaveOutcomes == {"ok", "kept", "corrupt"}

\* determineBatchSize without its last step, the clamp to totalItems
DetermineBatchSizeUncapped(totalItems, mem) ==
    LET memoryBudget == 3 * (mem \div 10) + (3 * (mem % 10)) \div 10
        maxByMemory == memoryBudget \div BytesPerItem
    IN Max(BatchFloor, Min(BatchCeiling, maxByMemory))

\* determineBatchSize of the streaming controller, clamp [100, 128].  Math.floor(mem * 0.3)
\* is floor(3 * mem / 10) for every integer mem a double holds exactly; it is computed
\* here without forming 3 * mem
DetermineBatchSize(totalItems, mem) ==
    LET memoryBudget == 3 * (mem \div 10) + (3 * (mem % 10)) \div 10
        maxByMemory == memoryBudget \div BytesPerItem
        clamped == Max(BatchFloor, Min(BatchCeiling, maxByMemory))
    IN Min(clamped, totalItems)
MemValues == {0, 209715200, 1073741824}

\* determineBatchSize with the memory budget divided by 1 MiB per item
DetermineBatchSizeFreeMiB(totalItems, freeMem) ==
    LET memoryBudget == 3 * (freeMem \div 10) + (3 * (freeMem % 10)) \div 10
        maxByMemory == memoryBudget \div 1048576
        clamped == Max(FreeMemFloor, Min(BatchCeiling, maxByMemory))
    IN Min(clamped, totalItems)

\* determineBatchSize of src/vectorstore.ts, sized by free memory, clamp [16, 128]
DetermineBatchSizeFree(totalItems, freeMem) ==
    LET memoryBudget == 3 * (freeMem \div 10) + (3 * (freeMem % 10)) \div 10
        maxByMemory == memoryBudget \div BytesPerItem
        clamped == Max(FreeMemFloor, Min(BatchCeiling, maxByMemory))
    IN Min(clamped, totalItems)

\* diffItems with the checksum comparison never succeeding
DiffItemsNeverEqual(items, st, led, fetchOk) ==
    LET isAdded(it) == it.id \notin DOMAIN st
        isStored(it) == it.id \in DOMAIN st
    IN [toEmbed |-> items,
        toDelete |-> IF fetchOk THEN SortedSeq(LoadIndexedIds(led) \ SeqIds(items)) ELSE <<>>,
        unchanged |-> 0,
        added |-> IF fetchOk THEN Len(SelectSeq(items, isAdded)) ELSE Len(items),
        updated |-> IF fetchOk THEN Len(SelectSeq(items, isStored)) ELSE 0]

\* diffItems counting a changed item as added
DiffItemsChangedAsAdded(items, st, led, fetchOk) ==
    LET isChanged(it) == it.id \notin DOMAIN st \/ st[it.id] # it.cs
        isSame(it) == it.id \in DOMAIN st /\ st[it.id] = it.cs
    IN [toEmbed |-> IF fetchOk THEN SelectSeq(items, isChanged) ELSE items,
        toDelete |-> IF fetchOk THEN SortedSeq(LoadIndexedIds(led) \ SeqIds(items)) ELSE <<>>,
        unchanged |-> IF fetchOk THEN Len(SelectSeq(items, isSame)) ELSE 0,
        added |-> IF fetchOk THEN Len(SelectSeq(items, isChanged)) ELSE Len(items),
        updated |-> 0]

\* diffItems still looking for stale ids after the bulk fetch has failed
DiffItemsDegradedStale(items, st, led, fetchOk) ==
    [toEmbed |-> IF fetchOk
                 THEN SelectSeq(items, LAMBDA it : it.id \notin DOMAIN st \/ st[it.id] # it.cs)
                 ELSE items,
     toDelete |-> SortedSeq(LoadIndexedIds(led) \ SeqIds(items)),
     unchanged |-> IF fetchOk
                   THEN Len(SelectSeq(items, LAMBDA it : it.id \in DOMAIN st /\ st[it.id] = it.cs))
                   ELSE 0,
     added |-> IF fetchOk THEN Len(SelectSeq(items, LAMBDA it : it.id \notin DOMAIN st))
               ELSE Len(items),
     updated |-> IF fetchOk
                 THEN Len(SelectSeq(items, LAMBDA it : it.id \in DOMAIN st /\ st[it.id] # it.cs))
                 ELSE 0]

\* diffItems taking the stored ids for the previous ids when the ledger cannot be read
DiffItemsStaleFromStore(items, st, led, fetchOk) ==
    LET previousIds == IF led.ok THEN led.ids ELSE DOMAIN st
        isAdded(it) == it.id \notin DOMAIN st
        isUpdated(it) == it.id \in DOMAIN st /\ st[it.id] # it.cs
        isSame(it) == it.id \in DOMAIN st /\ st[it.id] = it.cs
    IN IF ~fetchOk
       THEN [toEmbed |-> items, toDelete |-> <<>>, unchanged |-> 0,
             added |-> Len(items), updated |-> 0]
       ELSE [toEmbed |-> SelectSeq(items, LAMBDA it : isAdded(it) \/ isUpdated(it)),
             toDelete |-> SortedSeq(previousIds \ SeqIds(items)),
             unchanged |-> Len(SelectSeq(items, isSame)),
             added |-> Len(SelectSeq(items, isAdded)),
             updated |-> Len(SelectSeq(items, isUpdated))]

\* diffItems counting an updated item without queueing it for embedding
DiffItemsUpdatedNotEmbedded(items, st, led, fetchOk) ==
    LET isAdded(it) == it.id \notin DOMAIN st
        isUpdated(it) == it.id \in DOMAIN st /\ st[it.id] # it.cs
        isSame(it) == it.id \in DOMAIN st /\ st[it.id] = it.cs
    IN IF ~fetchOk
       THEN [toEmbed |-> items, toDelete |-> <<>>, unchanged |-> 0,
             added |-> Len(items), updated |-> 0]
       ELSE [toEmbed |-> SelectSeq(items, isAdded),
             toDelete |-> SortedSeq(LoadIndexedIds(led) \ SeqIds(items)),
             unchanged |-> Len(SelectSeq(items, isSame)),
             added |-> Len(SelectSeq(items, isAdded)),
             updated |-> Len(SelectSeq(items, isUpdated))]

\* diffItems: the ledger is loaded, the stored records of the current ids are fetched in
\* one call, every item is classified, and the ledger ids no longer current are stale
\* diffItems listing every previously indexed id as stale
DiffItemsStaleUnfiltered(items, st, led, fetchOk) ==
    LET previousIds == LoadIndexedIds(led)
        isAdded(it) == it.id \notin DOMAIN st
        isUpdated(it) == it.id \in DOMAIN st /\ st[it.id] # it.cs
        isSame(it) == it.id \in DOMAIN st /\ st[it.id] = it.cs
    IN IF ~fetchOk
       THEN [toEmbed |-> items, toDelete |-> <<>>, unchanged |-> 0,
             added |-> Len(items), updated |-> 0]
       ELSE [toEmbed |-> SelectSeq(items, LAMBDA it : isAdded(it) \/ isUpdated(it)),
             toDelete |-> SortedSeq(previousIds),
             unchanged |-> Len(SelectSeq(items, isSame)),
             added |-> Len(SelectSeq(items, isAdded)),
             updated |-> Len(SelectSeq(items, isUpdated))]

\* diffItems taking an id found in the ledger for indexed, without looking at storage
DiffItemsAddedByLedger(items, st, led, fetchOk) ==
    LET previousIds == LoadIndexedIds(led)
        currentIds == SeqIds(items)
        isAdded(it) == it.id \notin previousIds /\ it.id \notin DOMAIN st
        isUpdated(it) == it.id \in DOMAIN st /\ st[it.id] # it.cs
        isSame(it) == ~isAdded(it) /\ ~isUpdated(it)
    IN IF ~fetchOk
       THEN [toEmbed |-> items, toDelete |-> <<>>, unchanged |-> 0,
             added |-> Len(items), updated |-> 0]
       ELSE [toEmbed |-> SelectSeq(items, LAMBDA it : isAdded(it) \/ isUpdated(it)),
             toDelete |-> SortedSeq(previousIds \ currentIds),
             unchanged |-> Len(SelectSeq(items, isSame)),
             added |-> Len(SelectSeq(items, isAdded)),
             updated |-> Len(SelectSeq(items, isUpdated))]

DiffItems(items, st, led, fetchOk) ==
    LET previousIds == LoadIndexedIds(led)
        currentIds == SeqIds(items)
        isAdded(it) == it.id \notin DOMAIN st
        isUpdated(it) == it.id \in DOMAIN st /\ st[it.id] # it.cs
        isSame(it) == it.id \in DOMAIN st /\ st[it.id] = it.cs
    IN IF ~fetchOk
       THEN [toEmbed |-> items, toDelete |-> <<>>, unchanged |-> 0,
             added |-> Len(items), updated |-> 0]
       ELSE [toEmbed |-> SelectSeq(items, LAMBDA it : isAdded(it) \/ isUpdated(it)),
             toDelete |-> SortedSeq(previousIds \ currentIds),
             unchanged |-> Len(SelectSeq(items, isSame)),
             added |-> Len(SelectSeq(items, isAdded)),
             updated |-> Len(SelectSeq(items, isUpdated))]

NoDiff == [toEmbed |-> <<>>, toDelete |-> <<>>, unchanged |-> 0, added |-> 0, updated |-> 0]
NoResult == [added |-> 0, updated |-> 0, removed |-> 0, unchanged |-> 0]

BatchMsg(items) == [type |-> "batch", items |-> items]
ShutdownMsg == [type |-> "shutdown", items |-> <<>>]

\* worker.postMessage delivering the newest message first
PostFirst(ws, box, msg) == IF ws \in {"starting", "running"} THEN <<msg>> \o box ELSE box

\* worker.postMessage: queued for a live worker thread, dropped once it has terminated
Post(ws, box, msg) == IF ws \in {"starting", "running"} THEN Append(box, msg) ELSE box

\* one call on the storage engine or the ledger file, as recorded in steps
Step(op, id, ok) == [op |-> op, id |-> id, ok |-> ok]

CanFault == nfaults < MaxFaults
Fault(name) == /\ runFaults' = runFaults \cup {name}
               /\ nfaults' = nfaults + 1
NoFault == UNCHANGED <<runFaults, nfaults>>

\* -------------------------------------------------------------------- Init
\* new DrewVectorStore(rootPath, embedder) in a fresh `drew index` process, on a
\* project that has never been indexed
Constructed ==
    /\ store = EmptyStore
    /\ ledger = AbsentLedger
    /\ pc = "idle"
    /\ collection = FALSE
    /\ corpus = EmptyStore
    /\ diff = NoDiff
    /\ i = 0
    /\ batchSize = 0
    /\ sentItems = <<>>
    /\ worker = FALSE
    /\ workerAlive = FALSE
    /\ workerSucceeded = FALSE
    /\ exitPromise = Pending
    /\ delIdx = 0
    /\ result = NoResult
    /\ wstate = "none"
    /\ whandle = FALSE
    /\ inbox = <<>>
    /\ buffer = <<>>
    /\ flushScheduled = FALSE
    /\ shuttingDown = FALSE
    /\ runNo = 0
    /\ prevCorpus = EmptyStore
    /\ prevClean = FALSE
    /\ runFaults = {}
    /\ nfaults = 0
    /\ applied = {}
    /\ fallbackItems = <<>>
    /\ store0 = EmptyStore
    /\ ledger0 = AbsentLedger
    /\ ledgerWrites = 0
    /\ reindexed = FALSE
    /\ posted = <<>>
    /\ flushes = <<>>
    /\ receivedBatches = <<>>
    /\ steps = <<>>
    /\ acks = <<>>

\* no call of determineBatchSize outside indexAll
NoSizing == [totalItems |-> 0, mem |-> 0, by |-> "none", result |-> Pending]

\* no chunk embedded on its own
NoRetry == [ids |-> <<>>, fails |-> {}, bad |-> {}, hasBatch |-> TRUE,
            outcome |-> "none", cause |-> "none", calls |-> 0, upsertItems |-> <<>>,
            sizes |-> <<>>]

\* no call of upsertViaWorkers
NoDispatch == [state |-> "none", items |-> 0, subBatches |-> 0, completedSubBatches |-> 0,
               resolved |-> Pending]

Init == Constructed /\ sizing = NoSizing /\ retry = NoRetry /\ dispatch = NoDispatch

\* ------------------------------------------------------ the controller
\* create(reindex) removing the ledger but not the collection directory
CreateKeepsStore(reindex) ==
    /\ pc = "idle"
    /\ store' = store
    /\ ledger' = IF reindex THEN AbsentLedger ELSE ledger
    /\ collection' = TRUE
    /\ pc' = "open"
    /\ runNo' = runNo + 1
    /\ prevClean' = (prevClean /\ ~reindex)
    /\ store0' = store'
    /\ ledger0' = ledger'
    /\ reindexed' = reindex
    /\ UNCHANGED <<ledgerWrites, sizing, retry, dispatch>>
    /\ UNCHANGED <<posted, flushes, receivedBatches>>
    /\ UNCHANGED <<steps, acks>>
    /\ UNCHANGED <<corpus, diff, i, batchSize, sentItems, worker, workerAlive,
                   workerSucceeded, exitPromise, delIdx, result>>
    /\ UNCHANGED <<wrk, prevCorpus, runFaults, nfaults, applied, fallbackItems>>

\* `drew index`: a fresh process; store.create(reindex)
Create(reindex) ==
    /\ pc = "idle"
    /\ store' = IF reindex THEN EmptyStore ELSE store
    /\ ledger' = IF reindex THEN AbsentLedger ELSE ledger
    /\ collection' = TRUE
    /\ pc' = "open"
    /\ runNo' = runNo + 1
    /\ prevClean' = (prevClean /\ ~reindex)
    /\ store0' = store'
    /\ ledger0' = ledger'
    /\ reindexed' = reindex
    /\ UNCHANGED <<ledgerWrites, sizing, retry, dispatch>>
    /\ UNCHANGED <<posted, flushes, receivedBatches>>
    /\ UNCHANGED <<steps, acks>>
    /\ UNCHANGED <<corpus, diff, i, batchSize, sentItems, worker, workerAlive,
                   workerSucceeded, exitPromise, delIdx, result>>
    /\ UNCHANGED <<wrk, prevCorpus, runFaults, nfaults, applied, fallbackItems>>

\* indexAll from its entry to its first await: the empty-corpus return, the diff,
\* the no-op return, else close the handle, size the batches and spawn the worker
IndexAllBegin(c, fetchOk, spawnOk, save, mem) ==
    /\ pc = "open"
    /\ collection
    /\ corpus' = c
    /\ LET items == Items(c)
           total == Len(items)
           d == DiffItems(items, store, ledger, fetchOk)
           workItems == Len(d.toEmbed) + Len(d.toDelete)
           failures == (IF fetchOk THEN {} ELSE {"fetch"})
                         \cup (IF spawnOk THEN {} ELSE {"spawn"})
                         \cup (IF save = "ok" THEN {} ELSE {"ledgerWrite"})
       IN /\ nfaults + Cardinality(failures) <= MaxFaults
          /\ runFaults' = runFaults \cup failures
          /\ nfaults' = nfaults + Cardinality(failures)
          /\ IF total = 0
             THEN /\ fetchOk /\ spawnOk
                  /\ ledger' = SaveIndexedIds(ledger, {}, save)
                  /\ steps' = Append(steps, Step("ledger", 0, save = "ok"))
                  /\ ledgerWrites' = ledgerWrites + 1
                  /\ result' = NoResult
                  /\ pc' = "done"
                  /\ UNCHANGED <<collection, diff, i, batchSize, sentItems, worker,
                                 workerAlive, exitPromise, wrk>>
             ELSE IF workItems = 0
             THEN /\ spawnOk
                  /\ ledger' = SaveIndexedIds(ledger, SeqIds(items), save)
                  /\ steps' = Append(steps, Step("ledger", 0, save = "ok"))
                  /\ ledgerWrites' = ledgerWrites + 1
                  /\ result' = [added |-> 0, updated |-> 0, removed |-> 0,
                                unchanged |-> d.unchanged]
                  /\ diff' = d
                  /\ pc' = "done"
                  /\ UNCHANGED <<collection, i, batchSize, sentItems, worker,
                                 workerAlive, exitPromise, wrk>>
             ELSE /\ save = "ok"
                  /\ diff' = d
                  /\ collection' = FALSE
                  /\ batchSize' = DetermineBatchSize(Len(d.toEmbed), mem)
                  /\ sentItems' = <<>>
                  /\ worker' = spawnOk
                  /\ exitPromise' = IF spawnOk THEN Pending ELSE 1
                  /\ workerAlive' = spawnOk
                  /\ wstate' = IF spawnOk THEN "starting" ELSE "none"
                  /\ i' = 0
                  /\ IF Len(d.toEmbed) = 0
                     THEN /\ pc' = "await"
                          /\ inbox' = IF spawnOk THEN <<ShutdownMsg>> ELSE <<>>
                     ELSE /\ pc' = "embed"
                          /\ inbox' = <<>>
                  /\ UNCHANGED <<ledger, ledgerWrites, result, whandle, buffer,
                                 flushScheduled, shuttingDown, steps>>
    /\ UNCHANGED <<store, workerSucceeded, delIdx>>
    /\ UNCHANGED <<runNo, prevCorpus, prevClean, applied, fallbackItems, store0>>
    /\ UNCHANGED <<ledger0, reindexed, sizing, retry, dispatch>>
    /\ UNCHANGED <<posted, flushes, receivedBatches>>
    /\ UNCHANGED acks

\* the chunk loop stepping back one item at each chunk
ChunkOfOverlapping(items, from, size) ==
    SubSeq(items, Max(1, from), Min(from + size, Len(items)))

\* diff.toEmbed.slice(i, i + batchSize)
ChunkOf(items, from, size) == SubSeq(items, from + 1, Min(from + size, Len(items)))

\* sentItems.push(...upsertItems): every embedded chunk is tracked, posted or not
TrackSentIfAlive(sent, batch, alive) == IF alive THEN sent \o batch ELSE sent

TrackSent(sent, batch, alive) == sent \o batch

\* the embedding loop of the older controller (Phase 1, then Phase 2): the chunks are
\* embedded one after the other and posted together once the last one is embedded
EmbedChunkDeferred(postThrows) ==
    /\ pc = "embed"
    /\ LET n == Len(diff.toEmbed)
           batch == ChunkOf(diff.toEmbed, i, batchSize)
           tryPost == workerAlive /\ worker
           alive == IF tryPost /\ postThrows THEN FALSE ELSE workerAlive
           last == i + batchSize >= n
           all == sentItems \o batch
           box1 == IF last /\ tryPost /\ ~postThrows
                   THEN Post(wstate, inbox, BatchMsg(all))
                   ELSE inbox
           box2 == IF last /\ alive /\ worker THEN Post(wstate, box1, ShutdownMsg)
                   ELSE box1
       IN /\ postThrows => (tryPost /\ CanFault)
          /\ IF postThrows THEN Fault("post") ELSE NoFault
          /\ sentItems' = TrackSent(sentItems, batch, tryPost)
          /\ posted' = IF last /\ tryPost /\ ~postThrows THEN all ELSE posted
          /\ workerAlive' = alive
          /\ inbox' = box2
          /\ i' = i + batchSize
          /\ pc' = IF last THEN "await" ELSE "embed"
    /\ UNCHANGED <<store, ledger, collection, corpus, diff, batchSize, worker,
                   workerSucceeded, exitPromise, delIdx, result>>
    /\ UNCHANGED <<wstate, whandle, buffer, flushScheduled, shuttingDown>>
    /\ UNCHANGED <<runNo, prevCorpus, prevClean, applied, fallbackItems, store0>>
    /\ UNCHANGED <<ledger0, ledgerWrites, reindexed, sizing, retry, dispatch>>
    /\ UNCHANGED <<flushes, receivedBatches>>
    /\ UNCHANGED <<steps, acks>>

\* one iteration of the embedding loop: the chunk is embedded, tracked in sentItems and
\* posted; after the last chunk, the shutdown message is posted and exitPromise awaited
EmbedChunk(postThrows) ==
    /\ pc = "embed"
    /\ LET n == Len(diff.toEmbed)
           batch == ChunkOf(diff.toEmbed, i, batchSize)
           tryPost == workerAlive /\ worker
           alive == IF tryPost /\ postThrows THEN FALSE ELSE workerAlive
           box1 == IF tryPost /\ ~postThrows THEN Post(wstate, inbox, BatchMsg(batch))
                   ELSE inbox
           last == i + batchSize >= n
           box2 == IF last /\ alive /\ worker THEN Post(wstate, box1, ShutdownMsg)
                   ELSE box1
       IN /\ postThrows => (tryPost /\ CanFault)
          /\ IF postThrows THEN Fault("post") ELSE NoFault
          /\ sentItems' = TrackSent(sentItems, batch, tryPost)
          /\ posted' = IF tryPost /\ ~postThrows THEN posted \o batch ELSE posted
          /\ workerAlive' = alive
          /\ inbox' = box2
          /\ i' = i + batchSize
          /\ pc' = IF last THEN "await" ELSE "embed"
    /\ UNCHANGED <<store, ledger, collection, corpus, diff, batchSize, worker,
                   workerSucceeded, exitPromise, delIdx, result>>
    /\ UNCHANGED <<wstate, whandle, buffer, flushScheduled, shuttingDown>>
    /\ UNCHANGED <<runNo, prevCorpus, prevClean, applied, fallbackItems, store0>>
    /\ UNCHANGED <<ledger0, ledgerWrites, reindexed, sizing, retry, dispatch>>
    /\ UNCHANGED <<flushes, receivedBatches>>
    /\ UNCHANGED <<steps, acks>>

\* indexAll saving the ids of the corpus before it rethrows the embedding error
EmbedThrowSavingLedger ==
    /\ pc = "embed"
    /\ CanFault
    /\ Fault("embed")
    /\ pc' = "thrown"
    /\ ledger' = SaveIndexedIds(ledger, DOMAIN corpus, "ok")
    /\ ledgerWrites' = ledgerWrites + 1
    /\ UNCHANGED <<store, collection, corpus, diff, i, batchSize, sentItems,
                   worker, workerAlive, workerSucceeded, exitPromise, delIdx, result>>
    /\ UNCHANGED <<wrk, runNo, prevCorpus, prevClean, applied, fallbackItems, store0>>
    /\ UNCHANGED <<ledger0, reindexed, sizing, retry, dispatch>>
    /\ UNCHANGED <<posted, flushes, receivedBatches>>
    /\ UNCHANGED <<steps, acks>>

\* the embedding provider fails for the chunk: indexAll throws
EmbedThrow ==
    /\ pc = "embed"
    /\ CanFault
    /\ Fault("embed")
    /\ pc' = "thrown"
    /\ UNCHANGED <<store, ledger, collection, corpus, diff, i, batchSize, sentItems,
                   worker, workerAlive, workerSucceeded, exitPromise, delIdx, result>>
    /\ UNCHANGED <<wrk, runNo, prevCorpus, prevClean, applied, fallbackItems, store0>>
    /\ UNCHANGED <<ledger0, ledgerWrites, reindexed, sizing, retry, dispatch>>
    /\ UNCHANGED <<posted, flushes, receivedBatches>>
    /\ UNCHANGED <<steps, acks>>

\* `await exitPromise` not waiting for the promise to settle
AwaitedAtOnce(p) == TRUE

\* `await exitPromise` goes on once the promise has resolved
Awaited(p) == p # Pending

\* exitPromise has resolved: workerSucceeded is decided and the collection reopened
Reopen(openOk) ==
    /\ pc = "await"
    /\ Awaited(exitPromise)
    /\ workerSucceeded' = (workerAlive /\ worker /\ exitPromise = 0)
    /\ IF openOk
       THEN /\ NoFault
            /\ collection' = TRUE
            /\ pc' = "fallback"
       ELSE /\ CanFault
            /\ Fault("reopen")
            /\ collection' = FALSE
            /\ pc' = "thrown"
    /\ UNCHANGED <<store, ledger, corpus, diff, i, batchSize, sentItems, worker,
                   workerAlive, exitPromise, delIdx, result>>
    /\ UNCHANGED <<wrk, runNo, prevCorpus, prevClean, applied, fallbackItems, store0>>
    /\ UNCHANGED <<ledger0, ledgerWrites, reindexed, sizing, retry, dispatch>>
    /\ UNCHANGED <<posted, flushes, receivedBatches>>
    /\ UNCHANGED <<steps, acks>>

\* if (!workerSucceeded && sentItems.length > 0)
NeedsFallbackInverted(succeeded, sent) == succeeded /\ Len(sent) > 0

NeedsFallback(succeeded, sent) == ~succeeded /\ Len(sent) > 0

\* the fallback: upsert every sent item on the main thread with one native call;
\* written == Len(sentItems) when the call succeeds, fewer when it throws
Fallback(written) ==
    /\ pc = "fallback"
    /\ IF NeedsFallback(workerSucceeded, sentItems)
       THEN /\ written \in 0..Len(sentItems)
            /\ store' = UpsertAll(store, SubSeq(sentItems, 1, written))
            /\ applied' = applied \cup SeqIds(SubSeq(sentItems, 1, written))
            /\ fallbackItems' = sentItems
            /\ steps' = Append(steps, Step("upsert", 0, written = Len(sentItems)))
            /\ IF written = Len(sentItems)
               THEN /\ NoFault
                    /\ pc' = IF Len(diff.toDelete) = 0 THEN "optimize" ELSE "deletes"
               ELSE /\ CanFault
                    /\ Fault("fallback")
                    /\ pc' = "thrown"
       ELSE /\ written = 0
            /\ NoFault
            /\ pc' = IF Len(diff.toDelete) = 0 THEN "optimize" ELSE "deletes"
            /\ UNCHANGED <<store, applied, fallbackItems, steps>>
    /\ UNCHANGED <<ledger, collection, corpus, diff, i, batchSize, sentItems, worker,
                   workerAlive, workerSucceeded, exitPromise, delIdx, result>>
    /\ UNCHANGED <<wrk, runNo, prevCorpus, prevClean, store0>>
    /\ UNCHANGED <<ledger0, ledgerWrites, reindexed, sizing, retry, dispatch>>
    /\ UNCHANGED <<posted, flushes, receivedBatches>>
    /\ UNCHANGED acks

\* the stale-delete loop without its try/catch: a delete that throws ends the run
DeleteStaleFatal(deleteOk) ==
    /\ pc = "deletes"
    /\ delIdx < Len(diff.toDelete)
    /\ IF deleteOk
       THEN /\ NoFault
            /\ store' = Delete(store, diff.toDelete[delIdx + 1])
       ELSE /\ CanFault
            /\ Fault("delete")
            /\ UNCHANGED store
    /\ delIdx' = delIdx + 1
    /\ steps' = Append(steps, Step("delete", diff.toDelete[delIdx + 1], deleteOk))
    /\ pc' = IF ~deleteOk THEN "thrown"
             ELSE IF delIdx + 1 = Len(diff.toDelete) THEN "optimize" ELSE "deletes"
    /\ UNCHANGED <<ledger, collection, corpus, diff, i, batchSize, sentItems, worker,
                   workerAlive, workerSucceeded, exitPromise, result>>
    /\ UNCHANGED <<wrk, runNo, prevCorpus, prevClean, applied, fallbackItems, store0>>
    /\ UNCHANGED <<ledger0, ledgerWrites, reindexed, sizing, retry, dispatch>>
    /\ UNCHANGED <<posted, flushes, receivedBatches>>
    /\ UNCHANGED acks

\* one iteration of the stale-delete loop; a delete that throws is skipped
DeleteStale(deleteOk) ==
    /\ pc = "deletes"
    /\ delIdx < Len(diff.toDelete)
    /\ IF deleteOk
       THEN /\ NoFault
            /\ store' = Delete(store, diff.toDelete[delIdx + 1])
       ELSE /\ CanFault
            /\ Fault("delete")
            /\ UNCHANGED store
    /\ delIdx' = delIdx + 1
    /\ steps' = Append(steps, Step("delete", diff.toDelete[delIdx + 1], deleteOk))
    /\ pc' = IF delIdx + 1 = Len(diff.toDelete) THEN "optimize" ELSE "deletes"
    /\ UNCHANGED <<ledger, collection, corpus, diff, i, batchSize, sentItems, worker,
                   workerAlive, workerSucceeded, exitPromise, result>>
    /\ UNCHANGED <<wrk, runNo, prevCorpus, prevClean, applied, fallbackItems, store0>>
    /\ UNCHANGED <<ledger0, ledgerWrites, reindexed, sizing, retry, dispatch>>
    /\ UNCHANGED <<posted, flushes, receivedBatches>>
    /\ UNCHANGED acks

\* collection.optimizeSync()
Optimize(optimizeOk) ==
    /\ pc = "optimize"
    /\ steps' = Append(steps, Step("optimize", 0, optimizeOk))
    /\ IF optimizeOk
       THEN /\ NoFault
            /\ pc' = "save"
       ELSE /\ CanFault
            /\ Fault("optimize")
            /\ pc' = "thrown"
    /\ UNCHANGED <<store, ledger, collection, corpus, diff, i, batchSize, sentItems,
                   worker, workerAlive, workerSucceeded, exitPromise, delIdx, result>>
    /\ UNCHANGED <<wrk, runNo, prevCorpus, prevClean, applied, fallbackItems, store0>>
    /\ UNCHANGED <<ledger0, ledgerWrites, reindexed, sizing, retry, dispatch>>
    /\ UNCHANGED <<posted, flushes, receivedBatches>>
    /\ UNCHANGED acks

\* the ledger is saved and the counts returned
SaveAndReturn(save) ==
    /\ pc = "save"
    /\ IF save = "ok" THEN NoFault ELSE CanFault /\ Fault("ledgerWrite")
    /\ ledger' = SaveIndexedIds(ledger, DOMAIN corpus, save)
    /\ ledgerWrites' = ledgerWrites + 1
    /\ steps' = Append(steps, Step("ledger", 0, save = "ok"))
    /\ result' = [added |-> diff.added, updated |-> diff.updated,
                  removed |-> Len(diff.toDelete), unchanged |-> diff.unchanged]
    /\ pc' = "done"
    /\ UNCHANGED <<store, collection, corpus, diff, i, batchSize, sentItems, worker,
                   workerAlive, workerSucceeded, exitPromise, delIdx>>
    /\ UNCHANGED <<wrk, runNo, prevCorpus, prevClean, applied, fallbackItems, store0>>
    /\ UNCHANGED <<ledger0, reindexed, sizing, retry, dispatch>>
    /\ UNCHANGED <<posted, flushes, receivedBatches>>
    /\ UNCHANGED acks

\* the process ends: its handle is closed and its worker thread gone
EndProcess(clean) ==
    /\ collection' = FALSE
    /\ pc' = "idle"
    /\ corpus' = EmptyStore
    /\ diff' = NoDiff
    /\ i' = 0
    /\ batchSize' = 0
    /\ sentItems' = <<>>
    /\ worker' = FALSE
    /\ workerAlive' = FALSE
    /\ workerSucceeded' = FALSE
    /\ exitPromise' = Pending
    /\ delIdx' = 0
    /\ result' = NoResult
    /\ wstate' = "none"
    /\ whandle' = FALSE
    /\ inbox' = <<>>
    /\ buffer' = <<>>
    /\ flushScheduled' = FALSE
    /\ shuttingDown' = FALSE
    /\ prevCorpus' = corpus
    /\ prevClean' = clean
    /\ runFaults' = {}
    /\ applied' = {}
    /\ fallbackItems' = <<>>
    /\ store0' = EmptyStore
    /\ ledger0' = AbsentLedger
    /\ ledgerWrites' = 0
    /\ reindexed' = FALSE
    /\ posted' = <<>>
    /\ flushes' = <<>>
    /\ receivedBatches' = <<>>
    /\ steps' = <<>>
    /\ acks' = <<>>
    /\ UNCHANGED <<store, ledger, runNo, nfaults, sizing, retry, dispatch>>

\* indexAll returned: store.close() and the command ends
Close ==
    /\ pc = "done"
    /\ EndProcess(runFaults = {})

\* indexAll threw: the command reports the error and calls process.exit(1)
ProcessExit ==
    /\ pc = "thrown"
    /\ EndProcess(FALSE)

\* ------------------------------------------------------ the upsert worker
Resolve(p, code) == IF p = Pending THEN code ELSE p

\* the worker script starts: ZVecOpen(collectionPath), or the open fails,
\* an error is posted and the thread exits with status 1
WriterStart(openOk) ==
    /\ wstate = "starting"
    /\ IF openOk
       THEN /\ NoFault
            /\ whandle' = TRUE
            /\ wstate' = "running"
            /\ UNCHANGED <<exitPromise, inbox, acks>>
       ELSE /\ CanFault
            /\ Fault("workerOpen")
            /\ wstate' = "exited"
            /\ exitPromise' = Resolve(exitPromise, 1)
            /\ inbox' = <<>>
            /\ acks' = Append(acks, [type |-> "error", count |-> 0])
            /\ UNCHANGED whandle
    /\ UNCHANGED <<store, ledger, pc, collection, corpus, diff, i, batchSize, sentItems,
                   worker, workerAlive, workerSucceeded, delIdx, result>>
    /\ UNCHANGED <<buffer, flushScheduled, shuttingDown>>
    /\ UNCHANGED <<runNo, prevCorpus, prevClean, applied, fallbackItems, store0>>
    /\ UNCHANGED <<ledger0, ledgerWrites, reindexed, sizing, retry, dispatch>>
    /\ UNCHANGED <<posted, flushes, receivedBatches>>
    /\ UNCHANGED steps

\* parentPort.on('message'): a batch is buffered, shutdown is noted; a flush is scheduled
WriterReceive ==
    /\ wstate = "running"
    /\ inbox # <<>>
    /\ LET msg == Head(inbox)
       IN /\ inbox' = Tail(inbox)
          /\ IF msg.type = "batch"
             THEN /\ buffer' = buffer \o msg.items
                  /\ receivedBatches' = Append(receivedBatches, msg.items)
                  /\ UNCHANGED shuttingDown
             ELSE /\ shuttingDown' = TRUE
                  /\ UNCHANGED <<buffer, receivedBatches>>
          /\ flushScheduled' = TRUE
    /\ UNCHANGED <<store, ledger, ctl, wstate, whandle, sizing, retry, dispatch>>
    /\ UNCHANGED <<runNo, prevCorpus, prevClean, runFaults, nfaults, applied, fallbackItems,
                   store0, ledger0, ledgerWrites, reindexed, posted, flushes, steps, acks>>

\* the native calls of the older per-item worker: one upsertSync for each item
NativeCallsPerItem(buf) == [k \in 1..Len(buf) |-> <<buf[k]>>]

\* the native calls of one flush: none for an empty buffer, else one upsertSync(batch)
\* taking the whole buffer
NativeCalls(buf) == IF buf = <<>> THEN <<>> ELSE <<buf>>

\* the acknowledgment of the older per-item worker: 'done' with the items it completed
AckCompleted(batch, written) == [type |-> "done", count |-> written]

\* the acknowledgment of a flush: 'done', or 'error' when upsertSync threw, with the
\* number of items of the batch either way
Ack(batch, written) ==
    [type |-> IF written = Len(batch) THEN "done" ELSE "error", count |-> Len(batch)]

\* after a flush with shutdown noted, the handle is closed and the thread exits
ExitStatus(failed) == 0

\* flush(): the whole buffer goes to one native upsertSync call, which writes
\* written == Len(buffer) documents, or fewer and throws; then, if shutting down,
\* closeSync and process.exit
WriterFlush(written) ==
    /\ wstate = "running"
    /\ flushScheduled
    /\ flushScheduled' = FALSE
    /\ written \in 0..Len(buffer)
    /\ store' = UpsertAll(store, SubSeq(buffer, 1, written))
    /\ applied' = applied \cup SeqIds(SubSeq(buffer, 1, written))
    /\ buffer' = <<>>
    /\ flushes' = flushes \o NativeCalls(buffer)
    /\ steps' = IF buffer = <<>> THEN steps
                ELSE Append(steps, Step("upsert", 0, written = Len(buffer)))
    /\ acks' = IF buffer = <<>> THEN acks ELSE Append(acks, Ack(buffer, written))
    /\ IF written = Len(buffer) THEN NoFault ELSE CanFault /\ Fault("flush")
    /\ IF shuttingDown
       THEN /\ whandle' = FALSE
            /\ wstate' = "exited"
            /\ exitPromise' = Resolve(exitPromise, ExitStatus(written < Len(buffer)))
            /\ inbox' = <<>>
       ELSE UNCHANGED <<whandle, wstate, exitPromise, inbox>>
    /\ UNCHANGED <<ledger, pc, collection, corpus, diff, i, batchSize, sentItems, worker,
                   workerAlive, workerSucceeded, delIdx, result>>
    /\ UNCHANGED <<shuttingDown, runNo, prevCorpus, prevClean, fallbackItems, store0>>
    /\ UNCHANGED <<ledger0, ledgerWrites, reindexed, sizing, retry, dispatch>>
    /\ UNCHANGED <<posted, receivedBatches>>

\* the worker thread dies of an uncaught error: the parent's 'error' event fires
\* and resolves exitPromise with 1; the thread has not stopped yet
WriterCrash ==
    /\ wstate \in {"starting", "running"}
    /\ CanFault
    /\ Fault("workerCrash")
    /\ wstate' = "crashed"
    /\ exitPromise' = Resolve(exitPromise, 1)
    /\ inbox' = <<>>
    /\ UNCHANGED <<store, ledger, pc, collection, corpus, diff, i, batchSize, sentItems,
                   worker, workerAlive, workerSucceeded, delIdx, result>>
    /\ UNCHANGED <<whandle, buffer, flushScheduled, shuttingDown>>
    /\ UNCHANGED <<runNo, prevCorpus, prevClean, applied, fallbackItems, store0>>
    /\ UNCHANGED <<ledger0, ledgerWrites, reindexed, sizing, retry, dispatch>>
    /\ UNCHANGED <<posted, flushes, receivedBatches>>
    /\ UNCHANGED <<steps, acks>>

\* the crashed thread has stopped ('exit'): whatever it held is released
WriterTerminated ==
    /\ wstate = "crashed"
    /\ wstate' = "exited"
    /\ whandle' = FALSE
    /\ exitPromise' = Resolve(exitPromise, 1)
    /\ UNCHANGED <<store, ledger, pc, collection, corpus, diff, i, batchSize, sentItems,
                   worker, workerAlive, workerSucceeded, delIdx, result>>
    /\ UNCHANGED <<inbox, buffer, flushScheduled, shuttingDown, hist, sizing, retry, dispatch>>

\* ------------------------------------------------------------ specification
Next ==
    \/ \E reindex \in BOOLEAN : runNo < MaxRuns /\ Create(reindex)
    \/ \E c \in Corpora, fetchOk \in BOOLEAN, spawnOk \in BOOLEAN,
          save \in SaveOutcomes, mem \in MemValues :
            IndexAllBegin(c, fetchOk, spawnOk, save, mem)
    \/ \E postThrows \in BOOLEAN : EmbedChunk(postThrows)
    \/ EmbedThrow
    \/ \E openOk \in BOOLEAN : Reopen(openOk)
    \/ \E written \in 0..MaxIds : Fallback(written)
    \/ \E deleteOk \in BOOLEAN : DeleteStale(deleteOk)
    \/ \E optimizeOk \in BOOLEAN : Optimize(optimizeOk)
    \/ \E save \in SaveOutcomes : SaveAndReturn(save)
    \/ Close
    \/ ProcessExit
    \/ \E openOk \in BOOLEAN : WriterStart(openOk)
    \/ WriterReceive
    \/ \E written \in 0..MaxIds : WriterFlush(written)
    \/ WriterCrash
    \/ WriterTerminated

Spec == Init /\ [][Next]_vars

\* ------------------------------------------------- the four-run scenario
\* tests/vectorstore.test.ts IT-1..IT-5: buildSpecMap(20), then no change, then three
\* checksums changed, then two items added and one removed; every storage call and
\* every embedding succeeds, and the worker may fail to spawn or to open the collection
ScenarioItems == 20
ScenarioChanged == 3
ScenarioAdded == 2

ScenarioBase == [id \in 1..ScenarioItems |-> "c0"]
ScenarioEdited ==
    [id \in 1..ScenarioItems |-> IF id <= ScenarioChanged THEN "c1" ELSE "c0"]
ScenarioFinal ==
    [id \in (1..(ScenarioItems + ScenarioAdded)) \ {ScenarioItems} |->
        IF id <= ScenarioChanged THEN "c1" ELSE "c0"]
ScenarioRuns == <<ScenarioBase, ScenarioBase, ScenarioEdited, ScenarioFinal>>

ScenarioNext ==
    \/ runNo < Len(ScenarioRuns) /\ Create(FALSE)
    \/ \E spawnOk \in BOOLEAN, mem \in MemValues :
            IndexAllBegin(ScenarioRuns[runNo], TRUE, spawnOk, "ok", mem)
    \/ EmbedChunk(FALSE)
    \/ Reopen(TRUE)
    \/ \E written \in {0, Len(sentItems)} : Fallback(written)
    \/ DeleteStale(TRUE)
    \/ Optimize(TRUE)
    \/ SaveAndReturn("ok")
    \/ Close
    \/ \E openOk \in BOOLEAN : WriterStart(openOk)
    \/ WriterReceive
    \/ WriterFlush(Len(buffer))

ScenarioSpec == Init /\ [][ScenarioNext]_vars

\* ------------------------------------------------- a run of several chunks
\* the first `drew index` of a project whose items need more than one chunk: every
\* item is new, nothing is stale; any one call may fail
StreamItems == 201

StreamCorpus == [id \in 1..StreamItems |-> "c0"]

StreamNext ==
    \/ runNo < 1 /\ Create(FALSE)
    \/ \E spawnOk \in BOOLEAN, mem \in MemValues :
            IndexAllBegin(StreamCorpus, TRUE, spawnOk, "ok", mem)
    \/ \E postThrows \in BOOLEAN : EmbedChunk(postThrows)
    \/ EmbedThrow
    \/ \E openOk \in BOOLEAN : Reopen(openOk)
    \/ \E written \in {0, Len(sentItems)} : Fallback(written)
    \/ \E optimizeOk \in BOOLEAN : Optimize(optimizeOk)
    \/ \E save \in SaveOutcomes : SaveAndReturn(save)
    \/ Close
    \/ ProcessExit
    \/ \E openOk \in BOOLEAN : WriterStart(openOk)
    \/ WriterReceive
    \/ \E written \in {0, Len(buffer)} : WriterFlush(written)
    \/ WriterCrash
    \/ WriterTerminated

StreamSpec == Init /\ [][StreamNext]_vars

\* ------------------------------------------------- embedding one chunk
\* The texts of a chunk are embedded by embedder.embedBatch with the retry loop of
\* indexAll and embedBatchWithRetry, or one by one when the provider has no embedBatch.
\* The provider is the environment: env.fails holds the batch calls of the chunk that
\* throw (counted from 1), env.bad the texts whose single embed(t) throws.
Text(id) == [textOf |-> id]
Vec(t) == [embeddingOf |-> t]
Vecs(texts) == [j \in 1..Len(texts) |-> Vec(texts[j])]

Embedded(vecs, calls) == [ok |-> TRUE, vecs |-> vecs, calls |-> calls, cause |-> "none"]
Threw(cause, calls) == [ok |-> FALSE, vecs |-> <<>>, calls |-> calls, cause |-> cause]

\* await embedder.embedBatch(texts), the k-th batch call made for the chunk
EmbedBatch(texts, k, env) ==
    IF k \in env.fails THEN Threw("batch", k) ELSE Embedded(Vecs(texts), k)

\* await embedder.embed(t) for each text in turn
EmbedEach(texts, calls, env) ==
    IF \E j \in 1..Len(texts) : texts[j] \in env.bad
    THEN Threw("single", calls)
    ELSE Embedded(Vecs(texts), calls)

\* embedBatchWithRetry leaving out the vectors of a chunk whose batch call failed
RECURSIVE EmbedBatchWithRetrySkipping(_, _, _, _)
EmbedBatchWithRetrySkipping(texts, size, calls, env) ==
    IF texts = <<>> THEN Embedded(<<>>, calls)
    ELSE LET chunk == SubSeq(texts, 1, Min(size, Len(texts)))
             rest == SubSeq(texts, size + 1, Len(texts))
             try == EmbedBatch(chunk, calls + 1, env)
             first == IF try.ok THEN try ELSE Embedded(<<>>, try.calls)
             more == EmbedBatchWithRetrySkipping(rest, size, first.calls, env)
         IN IF more.ok THEN Embedded(first.vecs \o more.vecs, more.calls) ELSE more

\* embedBatchWithRetry(texts, batchSize): chunk after chunk; a chunk whose batch call
\* fails is embedded text by text at or below the floor, else retried at half the size
RECURSIVE EmbedBatchWithRetry(_, _, _, _)
EmbedBatchWithRetry(texts, size, calls, env) ==
    IF texts = <<>> THEN Embedded(<<>>, calls)
    ELSE LET chunk == SubSeq(texts, 1, Min(size, Len(texts)))
             rest == SubSeq(texts, size + 1, Len(texts))
             try == EmbedBatch(chunk, calls + 1, env)
             first == IF try.ok THEN try
                      ELSE IF size <= RetryFloor THEN EmbedEach(chunk, try.calls, env)
                      ELSE EmbedBatchWithRetry(chunk, Max(RetryFloor, size \div 2),
                                               try.calls, env)
         IN IF ~first.ok THEN first
            ELSE LET more == EmbedBatchWithRetry(rest, size, first.calls, env)
                 IN IF more.ok THEN Embedded(first.vecs \o more.vecs, more.calls)
                    ELSE more

\* the outcome of the retry loop with the values currentBatchSize took, in order
Attempted(r, sizes) ==
    [ok |-> r.ok, vecs |-> r.vecs, calls |-> r.calls, cause |-> r.cause, sizes |-> sizes]

\* the retry loop of indexAll: embedBatch on the first currentBatchSize texts and
\* embedBatchWithRetry on the rest; on any failure the size is halved, and the error
\* is rethrown once the size is at or below the floor
RECURSIVE EmbedChunkRetry(_, _, _, _)
EmbedChunkRetry(texts, currentBatchSize, calls, env) ==
    LET try == EmbedBatch(SubSeq(texts, 1, currentBatchSize), calls + 1, env)
        rest == IF try.ok /\ currentBatchSize < Len(texts)
                THEN EmbedBatchWithRetry(SubSeq(texts, currentBatchSize + 1, Len(texts)),
                                         Max(RetryFloor, currentBatchSize \div 2),
                                         try.calls, env)
                ELSE Embedded(<<>>, try.calls)
    IN IF try.ok /\ rest.ok
       THEN Attempted(Embedded(try.vecs \o rest.vecs, rest.calls), <<currentBatchSize>>)
       ELSE LET err == IF try.ok THEN rest ELSE try
            IN IF currentBatchSize <= RetryFloor
               THEN Attempted(err, <<currentBatchSize>>)
               ELSE LET r == EmbedChunkRetry(texts,
                                             Max(RetryFloor, currentBatchSize \div 2),
                                             err.calls, env)
                    IN Attempted(r, <<currentBatchSize>> \o r.sizes)

\* embeddings[j] past the end of the list (no item has id 0)
Undefined == Vec(Text(0))

\* upsertItems: the j-th item of the batch with the j-th embedding
UpsertItems(ids, embeddings) ==
    [j \in 1..Len(ids) |->
        [id |-> ids[j],
         embedding |-> IF j <= Len(embeddings) THEN embeddings[j] ELSE Undefined]]

ChunkLens == {1, 2, 16, 17, 33, 40, 70}

RetryInit ==
    /\ Constructed
    /\ sizing = NoSizing
    /\ dispatch = NoDispatch
    /\ \E len \in ChunkLens :
          retry \in [ids : {[j \in 1..len |-> j]}, fails : SUBSET (1..MaxFailCall),
                     bad : {{}, {Text(1)}, {Text(len)}}, hasBatch : BOOLEAN,
                     outcome : {"none"}, cause : {"none"}, calls : {0},
                     upsertItems : {<<>>}, sizes : {<<>>}]

Texts(ids) == [j \in 1..Len(ids) |-> Text(ids[j])]

\* one iteration of the embedding loop up to upsertItems, embedBatch present
EmbedBatched ==
    /\ retry.outcome = "none" /\ retry.hasBatch
    /\ LET texts == Texts(retry.ids)
           r == EmbedChunkRetry(texts, Len(texts), 0, retry)
       IN retry' = [retry EXCEPT !.outcome = IF r.ok THEN "ok" ELSE "thrown",
                                 !.cause = r.cause, !.calls = r.calls,
                                 !.sizes = r.sizes,
                                 !.upsertItems = IF r.ok THEN UpsertItems(retry.ids, r.vecs)
                                                 ELSE <<>>]
    /\ UNCHANGED <<store, ledger, ctl, wrk, hist, sizing, dispatch>>

\* the same with a provider that has no embedBatch: Promise.all over embed(t)
EmbedSequential ==
    /\ retry.outcome = "none" /\ ~retry.hasBatch
    /\ LET texts == Texts(retry.ids)
           r == EmbedEach(texts, 0, retry)
       IN retry' = [retry EXCEPT !.outcome = IF r.ok THEN "ok" ELSE "thrown",
                                 !.cause = r.cause, !.calls = r.calls,
                                 !.upsertItems = IF r.ok THEN UpsertItems(retry.ids, r.vecs)
                                                 ELSE <<>>]
    /\ UNCHANGED <<store, ledger, ctl, wrk, hist, sizing, dispatch>>

RetryNext == EmbedBatched \/ EmbedSequential

RetrySpec == RetryInit /\ [][RetryNext]_vars

\* ------------------------------------------ the embedding phase alone
\* batchSize, then the chunk loop with the embedding of each chunk spelled out; no
\* worker was spawned. The provider's failure pattern applies to each chunk anew.
PhaseItems == {0, 1, 16, 17, 100, 101, 129, 150}

PhaseInit ==
    /\ Constructed
    /\ sizing = NoSizing
    /\ dispatch = NoDispatch
    /\ retry \in [ids : {<<>>}, fails : SUBSET (1..MaxFailCall),
                   bad : {{}, {Text(1)}}, hasBatch : BOOLEAN,
                   outcome : {"none"}, cause : {"none"}, calls : {0},
                   upsertItems : {<<>>}, sizes : {<<>>}]

\* const batchSize = determineBatchSize(diff.toEmbed.length); sentItems = []
BeginEmbedding(n, mem) ==
    /\ pc = "idle"
    /\ diff' = [NoDiff EXCEPT !.toEmbed = [k \in 1..n |-> [id |-> k, cs |-> "c0"]],
                              !.added = n]
    /\ batchSize' = DetermineBatchSize(n, mem)
    /\ sentItems' = <<>>
    /\ i' = 0
    /\ pc' = IF n = 0 THEN "await" ELSE "embed"
    /\ UNCHANGED <<store, ledger, collection, corpus, worker, workerAlive,
                   workerSucceeded, exitPromise, delIdx, result>>
    /\ UNCHANGED <<wrk, hist, sizing, retry, dispatch>>

\* one iteration of the chunk loop: the texts of the chunk are embedded (retry loop, or
\* one embed per text), the upsert items built and tracked; or the error is thrown
EmbedNextChunk ==
    /\ pc = "embed"
    /\ LET batch == ChunkOf(diff.toEmbed, i, batchSize)
           ids == [k \in 1..Len(batch) |-> batch[k].id]
           texts == Texts(ids)
           r == IF retry.hasBatch THEN EmbedChunkRetry(texts, Len(texts), 0, retry)
                ELSE Attempted(EmbedEach(texts, 0, retry), <<>>)
       IN /\ retry' = [retry EXCEPT !.ids = ids,
                                    !.outcome = IF r.ok THEN "ok" ELSE "thrown",
                                    !.cause = r.cause, !.calls = r.calls,
                                    !.sizes = r.sizes,
                                    !.upsertItems = IF r.ok THEN UpsertItems(ids, r.vecs)
                                                    ELSE <<>>]
          /\ IF r.ok
             THEN /\ sentItems' = TrackSent(sentItems, batch, FALSE)
                  /\ i' = i + batchSize
                  /\ pc' = IF i + batchSize >= Len(diff.toEmbed) THEN "await" ELSE "embed"
             ELSE /\ pc' = "thrown"
                  /\ UNCHANGED <<sentItems, i>>
    /\ UNCHANGED <<store, ledger, collection, corpus, diff, batchSize, worker,
                   workerAlive, workerSucceeded, exitPromise, delIdx, result>>
    /\ UNCHANGED <<wrk, hist, sizing, dispatch>>

EmbedPhaseNext ==
    \/ \E n \in PhaseItems, mem \in MemValues : BeginEmbedding(n, mem)
    \/ EmbedNextChunk

EmbedPhaseSpec == PhaseInit /\ [][EmbedPhaseNext]_vars

\* ------------------------------- the ack-counting dispatch (older controller)
\* upsertViaWorkers(embedded, 1) of src/vectorstore.ts with the buffering writer as the
\* worker script: the items go out as sub-batches of 50, one acknowledgment is counted
\* for each message of the worker, and shutdown is posted once the count reaches the
\* number of sub-batches; the promise resolves when the worker exits or errors
DispatchItems == {0, 1, 50, 51, 100, 101}

Embedded0(n) == [k \in 1..n |-> [id |-> k, cs |-> "c0"]]

SubBatches(items) ==
    [k \in 1..((Len(items) + SubBatchSize - 1) \div SubBatchSize) |->
        ChunkOf(items, (k - 1) * SubBatchSize, SubBatchSize)]

UpsertViaWorkers(n, scriptOk, spawnOk) ==
    /\ dispatch.state = "none"
    /\ pc = "idle"
    /\ IF ~scriptOk \/ (n > 0 /\ ~spawnOk) THEN CanFault /\ Fault("spawn") ELSE NoFault
    /\ IF ~scriptOk \/ n = 0 \/ ~spawnOk
       THEN /\ dispatch' = [dispatch EXCEPT !.state = "resolved", !.items = n,
                                            !.resolved = (scriptOk /\ n = 0)]
            /\ UNCHANGED <<wstate, inbox, exitPromise>>
       ELSE /\ dispatch' = [dispatch EXCEPT !.state = "waiting", !.items = n,
                                            !.subBatches = Len(SubBatches(Embedded0(n)))]
            /\ wstate' = "starting"
            /\ exitPromise' = Pending
            /\ inbox' = [k \in 1..Len(SubBatches(Embedded0(n))) |->
                            BatchMsg(SubBatches(Embedded0(n))[k])]
    /\ UNCHANGED <<store, ledger, pc, collection, corpus, diff, i, batchSize, sentItems,
                   worker, workerAlive, workerSucceeded, delIdx, result>>
    /\ UNCHANGED <<whandle, buffer, flushScheduled, shuttingDown>>
    /\ UNCHANGED <<runNo, prevCorpus, prevClean, applied, fallbackItems, store0>>
    /\ UNCHANGED <<ledger0, ledgerWrites, reindexed, sizing, retry>>
    /\ UNCHANGED <<posted, flushes, receivedBatches, steps, acks>>

\* worker.on('message'): a 'done' or 'error' message is counted; once the count has
\* reached the number of sub-batches, shutdown is posted
OnWorkerMessage ==
    /\ dispatch.state = "waiting"
    /\ dispatch.completedSubBatches < Len(acks)
    /\ dispatch' = [dispatch EXCEPT !.completedSubBatches = @ + 1]
    /\ inbox' = IF dispatch.completedSubBatches + 1 >= dispatch.subBatches
                THEN Post(wstate, inbox, ShutdownMsg)
                ELSE inbox
    /\ UNCHANGED <<store, ledger, ctl, wstate, whandle, buffer, flushScheduled,
                   shuttingDown, hist, sizing, retry>>

\* worker.on('exit') resolves the promise with code === 0, worker.on('error') with false
OnWorkerExit ==
    /\ dispatch.state = "waiting"
    /\ exitPromise # Pending
    /\ dispatch' = [dispatch EXCEPT !.state = "resolved", !.resolved = (exitPromise = 0)]
    /\ UNCHANGED <<store, ledger, ctl, wrk, hist, sizing, retry>>

DispatchNext ==
    \/ \E n \in DispatchItems, scriptOk \in BOOLEAN, spawnOk \in BOOLEAN :
            UpsertViaWorkers(n, scriptOk, spawnOk)
    \/ OnWorkerMessage
    \/ OnWorkerExit
    \/ \E openOk \in BOOLEAN : WriterStart(openOk)
    \/ WriterReceive
    \/ \E written \in {0, Len(buffer)} : WriterFlush(written)
    \/ WriterCrash
    \/ WriterTerminated

DispatchSpec == Init /\ [][DispatchNext]_vars

\* ------------------------------------------------------ the batch sizer
\* determineBatchSize(totalItems, mem) called on its own, as tests/vectorstore.test.ts
\* does, with either version of the function; the arguments sit on both sides of every
\* threshold of the clamp (maxByMemory 15|16, 99|100, 127|128) and of totalItems
TotalItemsValues == {0, 1, 5, 15, 16, 17, 30, 31, 99, 100, 101, 127, 128, 129, 1000}
SizerMemValues == {0, 1048576, 111848106, 111848107, 209715200, 699050666, 699050667,
                   894784853, 894784854, 1073741824, 2147483647}

SizerInit ==
    /\ Constructed
    /\ retry = NoRetry
    /\ dispatch = NoDispatch
    /\ sizing \in [totalItems : TotalItemsValues, mem : SizerMemValues,
                   by : {"none"}, result : {Pending}]

SizeByTotalMem ==
    /\ sizing.by = "none"
    /\ sizing' = [sizing EXCEPT !.by = "totalmem",
                                !.result = DetermineBatchSize(sizing.totalItems, sizing.mem)]
    /\ UNCHANGED <<store, ledger, ctl, wrk, hist, retry, dispatch>>

SizeByFreeMem ==
    /\ sizing.by = "none"
    /\ sizing' = [sizing EXCEPT !.by = "freemem",
                                !.result = DetermineBatchSizeFree(sizing.totalItems, sizing.mem)]
    /\ UNCHANGED <<store, ledger, ctl, wrk, hist, retry, dispatch>>

SizerNext == SizeByTotalMem \/ SizeByFreeMem

SizerSpec == SizerInit /\ [][SizerNext]_vars

\* ------------------------------------------------------------------ claims
Returned == pc = "done"
CleanRun == runFaults = {}
Successive == Returned /\ prevClean /\ CleanRun
Count(S) == Cardinality(S)
Kept == DOMAIN corpus \cap DOMAIN prevCorpus
Changed == {id \in Kept : corpus[id] # prevCorpus[id]}
New == DOMAIN corpus \ DOMAIN prevCorpus
Gone == DOMAIN prevCorpus \ DOMAIN corpus

\* C1: a run over the corpus of the previous, successful run, with every storage
\* operation succeeding, returns unchanged == N and added == updated == removed == 0,
\* and leaves the stored records as the previous run left them.
C1_Idempotence ==
    (Successive /\ corpus = prevCorpus) =>
        /\ result = [added |-> 0, updated |-> 0, removed |-> 0,
                     unchanged |-> Count(DOMAIN corpus)]
        /\ store = store0

C1_Witness ==
    Successive /\ corpus = prevCorpus /\ Count(DOMAIN corpus) >= 2

\* C2: after a successful run over N items, a run with a new items, u changed checksums
\* and d items removed returns added == a, updated == u, removed == d and
\* unchanged == N - u - d.
C2_MixedDelta ==
    Successive =>
        result = [added |-> Count(New), updated |-> Count(Changed),
                  removed |-> Count(Gone),
                  unchanged |-> Count(DOMAIN prevCorpus) - Count(Changed) - Count(Gone)]

\* C3: after a successful run over N items, changing the checksum of exactly k of them,
\* with no addition and no removal, makes the next run return updated == k,
\* unchanged == N - k, added == 0 and removed == 0.
C3_UpdatePrecision ==
    (Successive /\ DOMAIN corpus = DOMAIN prevCorpus) =>
        result = [added |-> 0, updated |-> Count(Changed), removed |-> 0,
                  unchanged |-> Count(DOMAIN corpus) - Count(Changed)]

C3_Witness ==
    /\ Successive /\ DOMAIN corpus = DOMAIN prevCorpus
    /\ Count(Changed) >= 1
    /\ Count(Changed) < Count(DOMAIN corpus)

\* C4: after a successful run over N items, removing m >= 1 of them (all N included)
\* makes the next run return removed == m, and none of the removed ids is in storage
\* after that run.
C4_DeletionPrecision ==
    (Successive /\ Gone # {} /\ \A id \in DOMAIN corpus : id \in Kept \ Changed) =>
        /\ result.removed = Count(Gone)
        /\ Gone \cap DOMAIN store = {}

\* C5 as stated: runs 1..4 of the scenario return added=20, unchanged=0; unchanged=20;
\* updated=3, unchanged=17; added=2, removed=1, unchanged=17.
C5_Stated ==
    Returned =>
        result = CASE runNo = 1 -> [added |-> 20, updated |-> 0, removed |-> 0, unchanged |-> 0]
                   [] runNo = 2 -> [added |-> 0, updated |-> 0, removed |-> 0, unchanged |-> 20]
                   [] runNo = 3 -> [added |-> 0, updated |-> 3, removed |-> 0, unchanged |-> 17]
                   [] OTHER -> [added |-> 2, updated |-> 0, removed |-> 1, unchanged |-> 17]

\* C5 amended: runs 1..4 of the scenario return added=20, unchanged=0; unchanged=20;
\* updated=3, unchanged=17; added=2, removed=1, unchanged=19 (the 19 items kept from
\* run 3, the three re-indexed ones among them).
C5_Scenario ==
    Returned =>
        result = CASE runNo = 1 -> [added |-> 20, updated |-> 0, removed |-> 0, unchanged |-> 0]
                   [] runNo = 2 -> [added |-> 0, updated |-> 0, removed |-> 0, unchanged |-> 20]
                   [] runNo = 3 -> [added |-> 0, updated |-> 3, removed |-> 0, unchanged |-> 17]
                   [] OTHER -> [added |-> 2, updated |-> 0, removed |-> 1, unchanged |-> 19]

C5_Witness ==
    Returned /\ runNo = 4 /\ corpus = ScenarioFinal /\ DOMAIN store = DOMAIN ScenarioFinal

\* C6: whenever indexAll returns its counts, every item of diff.toEmbed has been written
\* to storage at least once in that run, by the worker or by the fallback.
C6_NoItemLost ==
    Returned => SeqIds(diff.toEmbed) \subseteq applied

\* C7: when the worker was never spawned, died, or exited with a non-zero status, the
\* controller has reopened the collection and its fallback upsert was called with
\* sentItems, which holds every item of diff.toEmbed; past the fallback all are stored.
WriterFailed == exitPromise \notin {Pending, 0}
PastFallback == pc \in {"deletes", "optimize", "save", "done"}

C7_FallbackWritesAllSent ==
    (PastFallback /\ WriterFailed) =>
        /\ collection
        /\ sentItems = diff.toEmbed
        /\ fallbackItems = sentItems
        /\ \A k \in 1..Len(sentItems) :
              /\ sentItems[k].id \in DOMAIN store
              /\ store[sentItems[k].id] = sentItems[k].cs

C7_Witness ==
    /\ Returned /\ WriterFailed /\ worker
    /\ Len(sentItems) >= 2
    /\ fallbackItems = sentItems

\* C8: when the worker cannot be spawned, indexAll does not throw for that reason, and
\* when it returns every item of the corpus is retrievable by id.
C8_SpawnResilience ==
    /\ runFaults = {"spawn"} => pc # "thrown"
    /\ ("spawn" \in runFaults /\ Returned) => DOMAIN corpus \subseteq DOMAIN store

C8_Witness ==
    /\ "spawn" \in runFaults /\ Returned
    /\ Count(DOMAIN corpus) >= 2
    /\ Len(diff.toEmbed) >= 1
    /\ Len(diff.toEmbed) < Count(DOMAIN corpus)

\* C9: in every state at most one of the controller and the worker holds an open handle.
C9_ExclusiveHandle ==
    ~(collection /\ whandle)

\* C10: indexAll throws only when the embedding provider fails.
C10_OnlyEmbeddingFatal ==
    pc = "thrown" => "embed" \in runFaults

\* C11: no stale id is deleted before every upsert of the run has completed: at the
\* delete loop and after it, every item to embed has been embedded, the worker has
\* stopped for good (it has exited when it succeeded), and when it did not succeed the
\* fallback has been called with every sent item.
WriterCanWrite == wstate \in {"starting", "running"}

C11_DeletesFollowUpserts ==
    (pc = "deletes" \/ delIdx > 0) =>
        /\ ~WriterCanWrite
        /\ exitPromise # Pending
        /\ sentItems = diff.toEmbed
        /\ workerSucceeded => wstate = "exited"
        /\ NeedsFallback(workerSucceeded, sentItems) => fallbackItems = sentItems

C11_Witness ==
    /\ delIdx >= 1
    /\ workerSucceeded /\ wstate = "exited"
    /\ Len(sentItems) >= 1 /\ SeqIds(sentItems) \subseteq applied

\* C12: whenever indexAll returns (empty-corpus, no-op or full run) and the ledger write
\* succeeded, the ledger file holds exactly the ids of the run's corpus, and
\* saveIndexedIds was called exactly once in the run.
C12_LedgerTracksCorpus ==
    (Returned /\ "ledgerWrite" \notin runFaults) =>
        /\ ledger = [ok |-> TRUE, ids |-> DOMAIN corpus]
        /\ ledgerWrites = 1

C12_Witness ==
    /\ Returned /\ "ledgerWrite" \notin runFaults
    /\ ledger0.ok /\ ledger0.ids \ DOMAIN corpus # {}
    /\ DOMAIN corpus \ ledger0.ids # {}
    /\ ledger.ids = DOMAIN corpus

\* C13: for every totalItems >= 0 and memory >= 0 the batch size is >= 0, <= 128,
\* <= totalItems, and >= the lower bound of the clamp range of the version called
\* whenever totalItems is at least that lower bound.
Sized == sizing.result # Pending
LowerBound == IF sizing.by = "freemem" THEN 16 ELSE 100

C13_SizerBounds ==
    Sized =>
        /\ sizing.result >= 0
        /\ sizing.result <= 128
        /\ sizing.result <= sizing.totalItems
        /\ sizing.totalItems >= LowerBound => sizing.result >= LowerBound

C13_Witness ==
    /\ Sized /\ sizing.by = "totalmem"
    /\ sizing.totalItems >= LowerBound /\ sizing.mem = 0
    /\ sizing.result = LowerBound

\* the claimed closed form, min(totalItems, max(floor, min(128, floor(floor(0.3 * mem)
\* / 2 MiB)))); 0.3 * mem taken in tenths, mem = 10 * a + r
Claimed(floor) ==
    LET a == sizing.mem \div 10
        r == sizing.mem % 10
        budget == 3 * a + (3 * r) \div 10
        memoryBound == budget \div (2 * 1024 * 1024)
    IN Min(sizing.totalItems, Max(floor, Min(128, memoryBound)))
IsTestCase == sizing.totalItems = 1000 /\ sizing.mem = 200 * 1024 * 1024

Diffed == pc \notin {"idle", "open"} /\ DOMAIN corpus # {}
N == Count(DOMAIN corpus)

C15_DiffDegradation ==
    /\ (Diffed /\ "fetch" \in runFaults) =>
          /\ diff.toEmbed = Items(corpus)
          /\ diff.toDelete = <<>>
          /\ diff.added = N /\ diff.updated = 0 /\ diff.unchanged = 0
          /\ Returned => result = [added |-> N, updated |-> 0, removed |-> 0,
                                   unchanged |-> 0]
    /\ runFaults = {"fetch"} => pc # "thrown"

C15_Witness ==
    /\ Returned /\ "fetch" \in runFaults
    /\ N >= 2
    /\ ledger0.ok /\ ledger0.ids \ DOMAIN corpus # {}
    /\ \E id \in DOMAIN corpus : id \in DOMAIN store0 /\ store0[id] = corpus[id]

\* C16: a missing, unreadable or corrupt ledger is treated as the empty set: the run
\* does not fail, toDelete is empty and removed == 0; on a fresh store with N items the
\* run returns added == N and removed == 0.
C16_MissingLedgerIsEmpty ==
    (pc \notin {"idle", "open"} /\ ~ledger0.ok) =>
        /\ diff.toDelete = <<>>
        /\ runFaults = {} => pc # "thrown"
        /\ Returned => result.removed = 0
        /\ (Returned /\ store0 = EmptyStore) => result.added = N

C16_Witness ==
    /\ Returned /\ ~ledger0.ok /\ runFaults = {}
    /\ DOMAIN store0 \ DOMAIN corpus # {}
    /\ DOMAIN corpus # {}

\* C17: diffItems puts each current item in exactly one of added, updated, unchanged:
\* added + updated + unchanged == number of items and toEmbed has added + updated
\* elements (no stored record: added; stored checksum differs: updated; else unchanged);
\* and, when the bulk fetch succeeds, toDelete is exactly the set of ledger ids absent
\* from the current corpus.
NoRecord == {id \in DOMAIN corpus : id \notin DOMAIN store0}
Differs == {id \in DOMAIN corpus : id \in DOMAIN store0 /\ store0[id] # corpus[id]}
Same == {id \in DOMAIN corpus : id \in DOMAIN store0 /\ store0[id] = corpus[id]}
Stale == (IF ledger0.ok THEN ledger0.ids ELSE {}) \ DOMAIN corpus

C18_Reindex ==
    /\ (reindexed /\ pc # "idle") => (store0 = EmptyStore /\ ledger0 = AbsentLedger)
    /\ (reindexed /\ Returned) =>
          result = [added |-> N, updated |-> 0, removed |-> 0, unchanged |-> 0]

C18_Witness ==
    /\ reindexed /\ Returned
    /\ runNo = 2 /\ nfaults = 0
    /\ corpus = prevCorpus /\ N >= 2
    /\ DOMAIN store = DOMAIN corpus

\* C19: in any run the items embedded and the ids upserted (by the writer or the
\* fallback) are exactly the items classified added or updated; no item classified
\* unchanged is embedded or written, and its stored record is left as it was.
UnchangedUntouched ==
    /\ SeqIds(sentItems) \subseteq SeqIds(diff.toEmbed)
    /\ applied \subseteq SeqIds(diff.toEmbed)
    /\ \A id \in DOMAIN corpus \ SeqIds(diff.toEmbed) :
          id \in DOMAIN store /\ store[id] = store0[id]

C19_OnlyChangedReprocessed ==
    /\ Diffed => UnchangedUntouched
    /\ Returned => (sentItems = diff.toEmbed /\ applied = SeqIds(diff.toEmbed))

\* C20: after a run that classifies an item as updated and returns, fetching the item
\* by id returns the new content, while the ids of unchanged items still return their
\* previous content.
C20_UpdatedContentFetched ==
    (Returned /\ collection /\ "fetch" \notin runFaults) =>
        /\ \A id \in Differs : Get(store, id) = corpus[id]
        /\ \A id \in Same : Get(store, id) = store0[id]

\* C21: for every chunk and every pattern of batch-embedding failures that does not
\* end in a fatal error, the vector list of the chunk has the length of the chunk and
\* its j-th vector is the embedding of the j-th text: each upsert item pairs an item's
\* id with the vector of its own text, in input order.
C21_PositionalCorrespondence ==
    retry.outcome = "ok" =>
        /\ Len(retry.upsertItems) = Len(retry.ids)
        /\ \A j \in 1..Len(retry.ids) :
              /\ retry.upsertItems[j].id = retry.ids[j]
              /\ retry.upsertItems[j].embedding = [embeddingOf |-> [textOf |-> retry.ids[j]]]

C21_Witness ==
    /\ retry.outcome = "ok" /\ retry.hasBatch
    /\ Len(retry.ids) = 70
    /\ {1, 3} \subseteq retry.fails
    /\ retry.calls >= 5

\* C22: a failed batch call makes the chunk size halve and the embedding be retried,
\* down to one text at a time at or below the floor of 16; a fatal error reaches the
\* caller only if a single-item embed call fails, for chunks of every size, chunks of
\* 16 items or fewer included.
C22_OnlySingleEmbedFatal ==
    retry.outcome = "thrown" =>
        /\ retry.cause = "single"
        /\ \E j \in 1..Len(retry.ids) : Text(retry.ids[j]) \in retry.bad

\* C23: after receiving shutdown the writer exits with status 0 only if every flush it
\* performed succeeded; if a native write call failed, the exit status is non-zero, so
\* that the controller runs the fallback.
C23_ExitStatusReflectsFlushes ==
    (wstate = "exited" /\ shuttingDown /\ "flush" \in runFaults) =>
        /\ exitPromise # 0
        /\ (pc \in {"fallback", "deletes", "optimize", "save", "done"} => ~workerSucceeded)

\* C24: when writing one item of a flush fails, the other items of the same flush are
\* still written, and the writer keeps processing later batches and the shutdown message.
C24_FlushFailuresIsolated ==
    /\ \A k \in 1..Len(flushes) : Cardinality(SeqIds(flushes[k]) \ applied) <= 1
    /\ "flush" \in runFaults => wstate \in {"running", "exited"}

\* C25: the writer closes its handle and exits with status 0 only when shutdown has
\* been received and its buffer is empty; every item of a batch message posted before
\* the shutdown message has been passed to a native upsert call before that exit.
RECURSIVE Flatten(_)
Flatten(ss) == IF ss = <<>> THEN <<>> ELSE Head(ss) \o Flatten(Tail(ss))

ExitedZero == wstate = "exited" /\ exitPromise = 0

C25_ShutdownDiscipline ==
    ExitedZero =>
        /\ shuttingDown
        /\ buffer = <<>>
        /\ ~whandle
        /\ Flatten(flushes) = posted

C25_Witness ==
    /\ ExitedZero
    /\ Len(receivedBatches) >= 2
    /\ Len(posted) = StreamItems

\* C26: every call of indexAll eventually returns or throws under fair scheduling of
\* the writer, in every writer scenario; so no state is reached where indexAll awaits
\* the writer's exit and neither it nor the writer can take a step.
WriterStep ==
    \/ WriterStart(TRUE)
    \/ WriterReceive
    \/ WriterFlush(Len(buffer))
    \/ WriterTerminated

C26_AwaitEnds ==
    pc = "await" => ENABLED (Reopen(TRUE) \/ WriterStep)

\* C27: chunk k is embedded and its batch message posted before the embedding of chunk
\* k+1 starts, and the embedding of chunk k+1 never waits for the write of chunk k.
Embedding == pc = "embed"
EmbeddedSoFar == SubSeq(diff.toEmbed, 1, Min(i, Len(diff.toEmbed)))

C27_PipelinedHandOff ==
    Embedding =>
        /\ (worker /\ workerAlive) => posted = EmbeddedSoFar
        /\ ENABLED EmbedChunk(FALSE)

C27_Witness ==
    /\ Embedding /\ i >= batchSize /\ batchSize > 0
    /\ worker /\ workerAlive /\ wstate = "running"
    /\ posted = EmbeddedSoFar
    /\ SeqIds(posted) \cap applied = {}

\* C28: at every point of the embedding loop sentItems holds, in order, every item
\* embedded so far, whether or not posting it succeeded or the writer was ever alive;
\* the items posted to the writer are among them.
C28_SentItemsComplete ==
    pc \in {"embed", "await"} =>
        /\ sentItems = EmbeddedSoFar
        /\ Len(posted) <= Len(sentItems)
        /\ \A k \in 1..Len(posted) : \E j \in 1..Len(sentItems) : sentItems[j] = posted[k]

C28_Witness ==
    /\ Embedding /\ i >= batchSize /\ batchSize > 0
    /\ ~(worker /\ workerAlive)
    /\ Len(sentItems) = i
    /\ Len(posted) < Len(sentItems)

\* C29: each flush of the buffering writer passes the whole buffer to one native upsert
\* call, and a flush happens only after the batch messages handled before it: the
\* native calls never outnumber the batch messages received, and together with the
\* buffer they carry exactly the items received, in order.
C29_WriteCoalescing ==
    /\ Len(flushes) <= Len(receivedBatches)
    /\ \A k \in 1..Len(flushes) : flushes[k] # <<>>
    /\ wstate = "running" => Flatten(flushes) \o buffer = Flatten(receivedBatches)

C29_Witness ==
    /\ Len(receivedBatches) = 2
    /\ Len(flushes) = 1
    /\ flushes[1] = Flatten(receivedBatches)
    /\ buffer = <<>>

\* C30: when the diff has no item to embed and no id to delete, the run performs no
\* upsert, no delete and no optimize, spawns no writer, keeps the controller's handle
\* open, rewrites the ledger to the current id set and returns 0 added, updated and
\* removed with unchanged == number of items.
NothingToDo ==
    /\ Returned
    /\ corpus # EmptyStore
    /\ Len(diff.toEmbed) = 0 /\ Len(diff.toDelete) = 0

C30_NoOpShortCircuit ==
    NothingToDo =>
        /\ store = store0
        /\ applied = {} /\ fallbackItems = <<>> /\ delIdx = 0
        /\ ~worker /\ wstate = "none" /\ exitPromise = Pending
        /\ collection
        /\ ledgerWrites = 1
        /\ "ledgerWrite" \notin runFaults => LoadIndexedIds(ledger) = DOMAIN corpus
        /\ result = [added |-> 0, updated |-> 0, removed |-> 0,
                     unchanged |-> Cardinality(DOMAIN corpus)]

C30_Witness ==
    /\ NothingToDo
    /\ Cardinality(DOMAIN corpus) >= 2
    /\ runFaults = {}
    /\ ledger0 # ledger

\* C31: a delete that throws for one stale id does not prevent the delete of the other
\* stale ids and does not fail the run, and the run still reports removed == number of
\* stale ids.
StepsOf(op) == {k \in 1..Len(steps) : steps[k].op = op}
Fatal == {"embed", "reopen", "fallback", "optimize"}

C31_DeletesBestEffort ==
    /\ Returned =>
          /\ \A k \in 1..Len(diff.toDelete) :
                \E j \in StepsOf("delete") :
                    /\ steps[j].id = diff.toDelete[k]
                    /\ steps[j].ok => diff.toDelete[k] \notin DOMAIN store
          /\ Cardinality(StepsOf("delete")) = Len(diff.toDelete)
          /\ result.removed = Len(diff.toDelete)
    /\ pc = "thrown" => runFaults \cap Fatal # {}

C31_Witness ==
    /\ Returned
    /\ "delete" \in runFaults
    /\ \E j, k \in StepsOf("delete") : j < k /\ ~steps[j].ok /\ steps[k].ok
    /\ result.removed = 2

\* C32: in every run that is not a no-op, optimize is called exactly once, after all
\* upserts and all stale deletes of the run, and the ledger is persisted only after
\* optimize; a no-op run never calls optimize.
RunDiff == DiffItems(Items(corpus), store0, ledger0, "fetch" \notin runFaults)
NoOpRun == Len(RunDiff.toEmbed) = 0 /\ Len(RunDiff.toDelete) = 0

C32_StepOrder ==
    Returned =>
        IF NoOpRun
        THEN StepsOf("optimize") = {}
        ELSE /\ Cardinality(StepsOf("optimize")) = 1
             /\ \A o \in StepsOf("optimize") :
                   /\ \A k \in StepsOf("upsert") \cup StepsOf("delete") : k < o
                   /\ \A k \in StepsOf("ledger") : o < k

\* the same for the runs that get past the diff (side check: holds)
OrderPastDiff ==
    (Returned /\ corpus # EmptyStore) =>
        IF NoOpRun
        THEN StepsOf("optimize") = {}
        ELSE /\ Cardinality(StepsOf("optimize")) = 1
             /\ \A o \in StepsOf("optimize") :
                   /\ \A k \in StepsOf("upsert") \cup StepsOf("delete") : k < o
                   /\ \A k \in StepsOf("ledger") : o < k

\* C33: the buffering writer emits exactly one acknowledgment ('done' or 'error') per
\* non-empty flush, carrying the number of items of that flush; its buffer is empty
\* after every flush; at every moment the number of items received equals the number
\* of items in the buffer plus the sum of the counts of the acknowledgments emitted.
RECURSIVE SumCounts(_)
SumCounts(as) == IF as = <<>> THEN 0 ELSE Head(as).count + SumCounts(Tail(as))

FlushAcks == SelectSeq(acks, LAMBDA a : a.count > 0)

C33_AckAccounting ==
    /\ Len(FlushAcks) = Len(flushes)
    /\ \A k \in 1..Len(flushes) :
          /\ FlushAcks[k].count = Len(flushes[k])
          /\ FlushAcks[k].type \in {"done", "error"}
    /\ (wstate = "running" /\ ~flushScheduled) => buffer = <<>>
    /\ Len(Flatten(receivedBatches)) = Len(buffer) + SumCounts(acks)

C33_Witness ==
    /\ \E k \in 1..Len(acks) : acks[k].type = "error" /\ acks[k].count > 0
    /\ Len(buffer) > 0
    /\ Len(receivedBatches) >= 2

\* C34: whenever indexAll terminates, by returning or by throwing a fatal embedding
\* error in the middle of the embedding loop, the writer it spawned has exited, so no
\* writer still holds the storage handle after the call ends.
Terminated == pc \in {"done", "thrown"}

C34_NoLeakedWriter ==
    (Terminated /\ worker) => (wstate = "exited" /\ ~whandle)

\* C35: for any sequence of runs (aborted runs, runs whose diff fetch failed and runs
\* over an empty corpus included), when a run returns its counts with all its storage
\* writes and deletes succeeding, the ids present in storage are the ids of its corpus.
WritesSucceeded == runFaults \cap {"flush", "fallback", "delete"} = {}

C35_Convergence ==
    (Returned /\ WritesSucceeded) => DOMAIN store = DOMAIN corpus

\* C36: the ids in toDelete are disjoint from the ids of the current corpus, hence from
\* the ids in toEmbed, for every ledger content, a ledger left over from an older run
\* included.
DiffComputed == pc \notin {"idle", "open"} /\ corpus # EmptyStore
StaleIds == {diff.toDelete[k] : k \in 1..Len(diff.toDelete)}

C36_NeverDeletesCurrent ==
    DiffComputed =>
        /\ StaleIds \cap DOMAIN corpus = {}
        /\ StaleIds \cap SeqIds(diff.toEmbed) = {}

C36_Witness ==
    /\ DiffComputed
    /\ StaleIds # {}
    /\ diff.updated > 0
    /\ LoadIndexedIds(ledger0) \cap SeqIds(diff.toEmbed) # {}

\* C37: if an item's write was lost in an earlier run (its id is in the ledger, its
\* record is not in storage), the next run over a corpus holding the item classifies
\* it as added and writes it again: classification reads storage, not the ledger.
Lost == {id \in DOMAIN corpus : id \in LoadIndexedIds(ledger0) /\ id \notin DOMAIN store0}

C37_LostWritesHealed ==
    DiffComputed =>
        /\ Lost \subseteq SeqIds(diff.toEmbed)
        /\ diff.added >= Cardinality(Lost)
        /\ (Returned /\ WritesSucceeded) => Lost \subseteq DOMAIN store

C37_Witness ==
    /\ DiffComputed /\ Returned /\ WritesSucceeded
    /\ corpus = prevCorpus
    /\ Lost # {}
    /\ Lost \subseteq DOMAIN store
    /\ "fetch" \notin runFaults

\* C38: when indexAll throws a fatal embedding error, the persisted ledger is exactly
\* what it was before the run, whatever number of chunks had already been handed to
\* the writer.
Aborted == pc = "thrown" /\ "embed" \in runFaults

C38_AbortKeepsLedger ==
    Aborted =>
        /\ ledger = ledger0
        /\ ledgerWrites = 0
        /\ StepsOf("ledger") = {}

C38_Witness ==
    /\ Aborted
    /\ i >= batchSize /\ batchSize > 0
    /\ Len(posted) = i
    /\ SeqIds(posted) \subseteq DOMAIN store

\* C39: whenever toEmbed is non-empty the batch size is at least 1, so the chunk loop
\* advances and covers every item of toEmbed in exactly one chunk; and for every pattern
\* of embedding failures the retry loop of a chunk makes a bounded number of attempts
\* (the attempted batch size strictly decreases down to 16), ending with vectors or
\* with a thrown error.
C39_EmbeddingTerminates ==
    /\ pc = "embed" =>
          /\ batchSize >= 1
          /\ i < Len(diff.toEmbed)
          /\ sentItems = SubSeq(diff.toEmbed, 1, i)
    /\ pc = "await" => sentItems = diff.toEmbed
    /\ pc \in {"embed", "await", "thrown"} =>
          /\ \A k \in 1..(Len(retry.sizes) - 1) :
                /\ retry.sizes[k + 1] < retry.sizes[k]
                /\ retry.sizes[k + 1] >= RetryFloor
          /\ \A k \in 1..Len(retry.sizes) : retry.sizes[k] <= Len(retry.ids)
          /\ retry.calls <= Len(retry.sizes) + 2 * Len(retry.ids)
          /\ pc = "thrown" <=> retry.outcome = "thrown"

C39_Witness ==
    /\ pc = "await"
    /\ Len(diff.toEmbed) = 150 /\ batchSize = 128
    /\ retry.outcome = "ok"
    /\ Len(retry.sizes) >= 2
    /\ retry.calls >= 3

\* C40: in upsertViaWorkers, which posts sub-batches of 50 and sends shutdown only once
\* it has counted one acknowledgment per sub-batch, the dispatch promise eventually
\* resolves for every number of items with the buffering writer; so while the promise
\* is pending, the parent or the writer always has a step to take.
C40_DispatchResolves ==
    dispatch.state = "waiting" => ENABLED (OnWorkerMessage \/ OnWorkerExit \/ WriterStep)

====
